---------------------------- MODULE Spec2Model ----------------------------
(* A model of lib/models: the Fixup residual network's construction and    *)
(* initialization pass (fixup_resnet.py) and the recurrent language models  *)
(* with their fused conversion and the Mogrifier cell (language_model.py).  *)
(*                                                                          *)
(* Tensors are nested sequences.  Parameter values that the constructors    *)
(* draw at random are kept symbolic (init = "default" / "normal"), values   *)
(* that the code sets are kept exactly (init = "constant").                 *)
EXTENDS Integers, Sequences, FiniteSets, TLC

VARIABLES
    \* ---- FixupResNet (fixup_resnet.py) ----
    layers,       \* the layer-count list handed to FixupResNet.__init__
    fpc,          \* "idle" | "init" | "done" | "error"
    num_layers,   \* self.num_layers
    inplanes,     \* self.inplanes
    modules,      \* named_modules(): sequence of [name, kind, weight, bias, shape]
    lo, hi,       \* modules[lo..hi] are still to be visited by the init pass
    fwd,          \* shape of the last forward's output, <<>> before any
    \* ---- MogrifierLSTMCell (language_model.py) ----
    cell,         \* the constructed cell: sizes, mogrify_steps, k, lstm, mogrifier_list
    mpc,          \* "idle" | "ready" | "mogrify" | "lstm" | "done" | "error"
    margs,        \* the arguments (x, (h, c)) of the forward call in flight
    mx, mh, mc,   \* the locals x, ht, ct of forward / x, h of mogrify
    mi,           \* the loop index i of mogrify
    mlog,         \* the gating rounds run by the call so far
    mout,         \* what forward returned: <<ht, ct>>
    \* ---- LanguageModel, CudnnLanguageModel, convert_to_cudnn_lstm ----
    model,        \* the two-cell model (LanguageModel or MogrifierLanguageModel)
    cudnn,        \* the CudnnLanguageModel returned by the last successful conversion
    conv,         \* the last convert_to_cudnn_lstm call: its source's class and outcome
    call,         \* the forward call in flight or just finished
    lpc,          \* "idle" | "loop" | "done" | "raised"
    lstep,        \* the loop variable step of LanguageModel.forward
    lstate,       \* the locals h1, c1, h2, c2 of LanguageModel.forward
    hid_seq,      \* the local hid_seq of LanguageModel.forward
    lout,         \* what the call returned
    ncalls        \* forward calls started so far

fixupVars == <<layers, fpc, num_layers, inplanes, modules, lo, hi, fwd>>
mogVars == <<cell, mpc, margs, mx, mh, mc, mi, mlog, mout>>
lmVars == <<model, cudnn, conv, call, lpc, lstep, lstate, hid_seq, lout, ncalls>>

vars == <<layers, fpc, num_layers, inplanes, modules, lo, hi, fwd,
          cell, mpc, margs, mx, mh, mc, mi, mlog, mout,
          model, cudnn, conv, call, lpc, lstep, lstate, hid_seq, lout, ncalls>>

-----------------------------------------------------------------------------
(* Bounds *)
MaxBlocks == 2     \* largest entry of a layer-count list
MaxImage == 5      \* largest image side handed to forward
Unit == 8          \* fixed-point resolution: the integer that stands for 1.0
MaxSize == 3       \* largest input_size / hidden_size of a Mogrifier cell
MaxSteps == 3      \* largest mogrify_steps
MaxSeed == 1       \* parameter draws tried per shape: seeds 0..MaxSeed
MaxBatch == 2      \* largest batch_size of a token batch
MaxSeq == 2        \* largest seq_length of a token batch
MaxCalls == 2      \* forward calls made on one pair of models

-----------------------------------------------------------------------------
(* Generic helpers *)
RECURSIVE SumSeq(_)
SumSeq(s) == IF s = <<>> THEN 0 ELSE Head(s) + SumSeq(Tail(s))

RECURSIVE Flatten(_)
Flatten(ss) == IF ss = <<>> THEN <<>> ELSE Head(ss) \o Flatten(Tail(ss))

\* range(a, b) as a sequence
Range(a, b) == [i \in 1..(IF b > a THEN b - a ELSE 0) |-> a + i - 1]

\* F applied to the value of e, with e evaluated once (call by value)
Let(e, F(_)) == CHOOSE y \in {F(v) : v \in {e}} : TRUE

\* a sequence given as a function, as the tuple of its values
Tuple(f) == f \o <<>>

RECURSIVE ListsOfLen(_, _)
ListsOfLen(n, S) ==
    IF n = 0 THEN {<<>>}
    ELSE {<<x>> \o t : x \in S, t \in ListsOfLen(n - 1, S)}

-----------------------------------------------------------------------------
(* fixup_resnet.py *)

expansion == 1
StagePlanes == <<64, 128, 256, 512>>
StageStride == <<1, 2, 2, 2>>
StageName == <<"layer1", "layer2", "layer3", "layer4">>
IndexName == <<"0", "1", "2", "3", "4", "5">>
num_classes == 10

Default == [init |-> "default"]
Constant(v) == [init |-> "constant", value |-> v]
\* normal_(mean=0, std) with std^2 = 2 / den
Normal(den) == [init |-> "normal", den |-> den]
None == [init |-> "None"]

Module(name, kind, weight, bias, shape) ==
    [name |-> name, kind |-> kind, weight |-> weight, bias |-> bias, shape |-> shape]

\* nn.Linear(1, 1, bias=False)
ScalarParam(name) == Module(name, "Linear", Default, None, <<1, 1>>)

conv3x3(name, in_planes, out_planes, stride) ==
    Module(name, "Conv2d", Default, None, <<out_planes, in_planes, 3, 3, stride>>)

conv1x1(name, in_planes, out_planes, stride) ==
    Module(name, "Conv2d", Default, None, <<out_planes, in_planes, 1, 1, stride>>)

Plain(name, kind) == Module(name, kind, None, None, <<>>)

\* FixupBasicBlock.__init__: the block and its registered children, in
\* registration order (a None downsample is not a child)
FixupBasicBlock(p, inpl, planes, stride, downsample) ==
    << Module(p, "FixupBasicBlock", None, None, <<inpl, planes, stride>>),
       ScalarParam(p \o <<"bias1a">>),
       conv3x3(p \o <<"conv1">>, inpl, planes, stride),
       ScalarParam(p \o <<"bias1b">>),
       Plain(p \o <<"relu">>, "LeakyReLU"),
       ScalarParam(p \o <<"bias2a">>),
       conv3x3(p \o <<"conv2">>, planes, planes, 1),
       ScalarParam(p \o <<"scale">>),
       ScalarParam(p \o <<"bias2b">>) >>
    \o (IF downsample
        THEN <<conv1x1(p \o <<"downsample">>, inpl, planes * expansion, stride)>>
        ELSE <<>>)

\* FixupResNet._make_layer: the Sequential and its blocks
make_layer(p, inpl, planes, blocks, stride) ==
    LET downsample == stride # 1 \/ inpl # planes * expansion
        first == FixupBasicBlock(p \o <<IndexName[1]>>, inpl, planes, stride, downsample)
        rest == [j \in 1..Len(Range(1, blocks)) |->
                    FixupBasicBlock(p \o <<IndexName[j + 1]>>,
                                    planes * expansion, planes, 1, FALSE)]
    IN <<Plain(p, "Sequential")>> \o first \o Flatten(rest)

\* self.inplanes on entry to the i-th _make_layer call
InplanesBefore(i) == IF i = 1 THEN 64 ELSE StagePlanes[i - 1] * expansion

\* FixupResNet.__init__ up to the initialization pass: named_modules()
BuildModules(ls) ==
    << Plain(<<>>, "FixupResNet"),
       Module(<<"conv1">>, "Conv2d", Default, None, <<64, 3, 3, 3, 1>>),
       ScalarParam(<<"bias1">>),
       Plain(<<"relu">>, "LeakyReLU") >>
    \o Flatten([i \in 1..4 |->
          make_layer(<<StageName[i]>>, InplanesBefore(i), StagePlanes[i],
                     ls[i], StageStride[i])])
    \o << Plain(<<"avgpool">>, "AdaptiveAvgPool2d"),
          ScalarParam(<<"bias2">>),
          Module(<<"fc">>, "Linear", Default, Default,
                 <<num_classes, 512 * expansion>>) >>

\* index of the module registered under a name, 0 when there is none
IndexOf(ms, name) ==
    IF \E j \in 1..Len(ms) : ms[j].name = name
    THEN CHOOSE j \in 1..Len(ms) : ms[j].name = name
    ELSE 0

\* a variant of ScaleInName: the name compared as a whole
ScaleInName_Exact(name) == name = <<"scale">>

\* 'scale' in name
NameComponentsWithScale == {"scale"}
ScaleInName(name) == \E j \in 1..Len(name) : name[j] \in NameComponentsWithScale

\* the body of the loop over named_modules(), for the module at index j;
\* it raises when num_layers ** (-0.5) divides by zero
InitRaises(ms, j, L) == ms[j].kind = "FixupBasicBlock" /\ L = 0

InitModule(ms, j, L) ==
    LET m == ms[j] IN
    IF m.kind = "FixupBasicBlock" THEN
        LET c1 == IndexOf(ms, m.name \o <<"conv1">>)
            c2 == IndexOf(ms, m.name \o <<"conv2">>)
            ds == IndexOf(ms, m.name \o <<"downsample">>)
        IN [k \in 1..Len(ms) |->
              IF k = c1 THEN
                  [ms[k] EXCEPT !.weight =
                      Normal(ms[k].shape[1] * ms[k].shape[3] * ms[k].shape[4] * L)]
              ELSE IF k = c2 THEN [ms[k] EXCEPT !.weight = Constant(0)]
              ELSE IF k = ds THEN
                  [ms[k] EXCEPT !.weight =
                      Normal(ms[k].shape[1] * ms[k].shape[3] * ms[k].shape[4])]
              ELSE ms[k]]
    ELSE IF m.kind = "Linear" THEN
        [ms EXCEPT ![j] =
            [m EXCEPT !.weight = IF ScaleInName(m.name) THEN Constant(1) ELSE Constant(0),
                      !.bias = IF m.bias # None THEN Constant(0) ELSE None]]
    ELSE ms

\* the layer-count lists tried: one entry short, four entries, one entry long
ListLens == {3, 4, 5}
LayerLists == UNION {ListsOfLen(n, 0..MaxBlocks) : n \in ListLens}

FixupIdle ==
    /\ layers = <<>>
    /\ fpc = "idle"
    /\ num_layers = 0
    /\ inplanes = 0
    /\ modules = <<>>
    /\ lo = 1
    /\ hi = 0
    /\ fwd = <<>>

\* FixupResNet.__init__ with fewer than four counts: layers[3] raises IndexError
ConstructShort ==
    /\ fpc = "idle"
    /\ \E ls \in LayerLists :
         /\ Len(ls) < 4
         /\ layers' = ls
         /\ num_layers' = SumSeq(ls)
         /\ inplanes' = IF Len(ls) >= 1 THEN StagePlanes[Len(ls)] * expansion ELSE 64
         /\ fpc' = "error"
    /\ UNCHANGED <<modules, lo, hi, fwd>>

\* FixupResNet.__init__ lines 61-76: everything before the initialization pass
Construct ==
    /\ fpc = "idle"
    /\ \E ls \in LayerLists :
         /\ Len(ls) >= 4
         /\ layers' = ls
         /\ num_layers' = SumSeq(ls)
         /\ inplanes' = StagePlanes[4] * expansion
         /\ modules' = BuildModules(ls)
         /\ lo' = 1
         /\ hi' = Len(BuildModules(ls))
         /\ fpc' = "init"
    /\ UNCHANGED fwd

\* one iteration of the initialization pass, on the module at index j
Visit(j) ==
    IF InitRaises(modules, j, num_layers)
    THEN /\ fpc' = "error"
         /\ UNCHANGED modules
    ELSE /\ modules' = InitModule(modules, j, num_layers)
         /\ fpc' = IF lo' > hi' THEN "done" ELSE "init"

\* the pass takes the modules in named_modules() order ...
VisitFront ==
    /\ fpc = "init" /\ lo <= hi /\ hi = Len(modules)
    /\ lo' = lo + 1 /\ hi' = hi
    /\ Visit(lo)
    /\ UNCHANGED <<layers, num_layers, inplanes, fwd>>

\* ... or, under the opposite iteration order, from the last one back
VisitBack ==
    /\ fpc = "init" /\ lo <= hi /\ lo = 1
    /\ hi' = hi - 1 /\ lo' = lo
    /\ Visit(hi)
    /\ UNCHANGED <<layers, num_layers, inplanes, fwd>>

\* spatial size after a 3x3 (padding 1) or 1x1 (padding 0) convolution of stride s
ConvOut(n, s) == ((n - 1) \div s) + 1

BlockModules == {j \in 1..Len(modules) : modules[j].kind = "FixupBasicBlock"}

RECURSIVE ThroughBlocks(_, _)
\* shape <<C, H, W>> after the blocks at the indices bs, in order
ThroughBlocks(bs, shp) ==
    IF bs = <<>> THEN shp
    ELSE LET b == modules[Head(bs)]
         IN IF b.shape[1] # shp[1] THEN <<>>
            ELSE ThroughBlocks(Tail(bs),
                   <<b.shape[2], ConvOut(shp[2], b.shape[3]), ConvOut(shp[3], b.shape[3])>>)

RECURSIVE SortedSeq(_)
SortedSeq(S) ==
    IF S = {} THEN <<>>
    ELSE LET m == CHOOSE x \in S : \A y \in S : x <= y
         IN <<m>> \o SortedSeq(S \ {m})

\* FixupResNet.forward on a batch of shape (B, 3, H, W): the output's shape
Forward ==
    /\ fpc = "done"
    /\ \E B \in 1..2, H \in 1..MaxImage, W \in 1..MaxImage :
         LET body == ThroughBlocks(SortedSeq(BlockModules), <<64, H, W>>)
         IN fwd' = IF body = <<>> THEN <<>> ELSE <<B, num_classes>>
    /\ UNCHANGED <<layers, fpc, num_layers, inplanes, modules, lo, hi>>

-----------------------------------------------------------------------------
(* Tensor arithmetic, in fixed point: the integer Unit stands for 1.0.      *)
(* Weights of linear maps are whole numbers, activations are fixed point.   *)

Min(a, b) == IF a < b THEN a ELSE b
Max(a, b) == IF a > b THEN a ELSE b
Clamp(z, a, b) == Max(a, Min(b, z))

\* torch.sigmoid, piecewise linear: 1/2 + z/4 cut to [0, 1]
sigmoid(z) == Clamp((Unit \div 2) + (z \div 4), 0, Unit)
\* torch.tanh, piecewise linear: z cut to [-1, 1]
tanh(z) == Clamp(z, -Unit, Unit)
\* product of two fixed-point numbers
Mul(a, b) == (a * b) \div Unit

RECURSIVE Dot(_, _)
Dot(w, v) == IF w = <<>> THEN 0 ELSE Head(w) * Head(v) + Dot(Tail(w), Tail(v))

zeros(n) == [j \in 1..n |-> 0]

\* the outcome of an operation that raised (a shape mismatch): no tensor
Raised == <<>>
IsRaised(v) == Len(v) = 0

\* a parameter draw: entries in {-1, 0, 1}, fixed by the shape and a seed
RandMatrix(rows, cols, seed) ==
    [r \in 1..rows |-> [c \in 1..cols |-> ((r + 2 * c + seed) % 3) - 1]]
RandVector(n, seed) == [j \in 1..n |-> (((j + seed) % 3) - 1) * (Unit \div 2)]

\* nn.Linear(in_features, out_features, bias)
Linear(in_features, out_features, bias, seed) ==
    [kind |-> "Linear", in_features |-> in_features, out_features |-> out_features,
     weight |-> RandMatrix(out_features, in_features, seed),
     bias |-> IF bias THEN RandVector(out_features, seed + 1) ELSE <<>>]

\* nn.Sequential(a, b)
Sequential(a, b) ==
    [kind |-> "Sequential", in_features |-> a.in_features,
     out_features |-> b.out_features, first |-> a, second |-> b]

\* nn.Linear.forward; it raises when the shapes do not match
ApplyLinear(l, v0) ==
    Let(v0, LAMBDA v :
        IF IsRaised(v) \/ Len(v) # l.in_features THEN Raised
        ELSE Tuple([r \in 1..l.out_features |->
                 Dot(l.weight[r], v) + (IF l.bias = <<>> THEN 0 ELSE l.bias[r])]))

ApplyTransform(t, v) ==
    IF t.kind = "Linear" THEN ApplyLinear(t, v)
    ELSE ApplyLinear(t.second, ApplyLinear(t.first, v))

\* nn.LSTMCell(input_size, hidden_size): its four parameters
LSTMCellParams(input_size, hidden_size, seed, hh_seed) ==
    [kind |-> "LSTMCell", input_size |-> input_size, hidden_size |-> hidden_size,
     weight_ih |-> RandMatrix(4 * hidden_size, input_size, seed),
     weight_hh |-> RandMatrix(4 * hidden_size, hidden_size, seed + 1),
     bias_ih |-> RandVector(4 * hidden_size, seed + 2),
     bias_hh |-> IF hh_seed < 0 THEN zeros(4 * hidden_size)
                 ELSE RandVector(4 * hidden_size, hh_seed)]

\* the LSTM recurrence of one step: gates in the order i, f, g, o
LSTMGates(w_ih, w_hh, b_ih, b_hh, hid, x, h) ==
    Tuple([r \in 1..(4 * hid) |->
              Dot(w_ih[r], x) + b_ih[r] + Dot(w_hh[r], h) + b_hh[r]])

LSTMStep(w_ih, w_hh, b_ih, b_hh, hid, x0, h0, c0) ==
    Let(<<x0, h0, c0>>, LAMBDA a :
        IF Len(a[1]) # Len(w_ih[1]) \/ Len(a[2]) # hid \/ Len(a[3]) # hid THEN Raised
        ELSE Let(LSTMGates(w_ih, w_hh, b_ih, b_hh, hid, a[1], a[2]), LAMBDA gates :
                LET ig(j) == sigmoid(gates[j])
                    fg(j) == sigmoid(gates[hid + j])
                    gg(j) == tanh(gates[2 * hid + j])
                    og(j) == sigmoid(gates[3 * hid + j])
                IN Let(Tuple([j \in 1..hid |-> Mul(fg(j), a[3][j]) + Mul(ig(j), gg(j))]),
                       LAMBDA c2 :
                           <<Tuple([j \in 1..hid |-> Mul(og(j), tanh(c2[j]))]), c2>>)))

\* nn.LSTMCell.forward(x, (h, c))
LSTMCell(p, x, h, c) ==
    LSTMStep(p.weight_ih, p.weight_hh, p.bias_ih, p.bias_hh, p.hidden_size, x, h, c)

-----------------------------------------------------------------------------
(* language_model.py: MogrifierLSTMCell *)

DefaultK == 90

\* a variant of FullRank: full rank only when both sizes are below k
FullRank_Both(input_size, hidden_size, k) == input_size < k /\ hidden_size < k

\* the test of line 104 that selects the full-rank branch
FullRank(input_size, hidden_size, k) == input_size < k \/ hidden_size < k

\* the gating transform the constructor stores at index i (0-based)
QTransform(input_size, hidden_size, k, seed) ==
    IF FullRank(input_size, hidden_size, k)
    THEN Linear(hidden_size, input_size, TRUE, seed)
    ELSE Sequential(Linear(hidden_size, k, FALSE, seed),
                    Linear(k, input_size, TRUE, seed + 1))

RTransform(input_size, hidden_size, k, seed) ==
    IF FullRank(input_size, hidden_size, k)
    THEN Linear(input_size, hidden_size, TRUE, seed)
    ELSE Sequential(Linear(input_size, k, FALSE, seed),
                    Linear(k, hidden_size, TRUE, seed + 1))

\* MogrifierLSTMCell.__init__: one q, then one transform per i in range(1, steps)
MogrifierList(input_size, hidden_size, mogrify_steps, k, seed) ==
    <<QTransform(input_size, hidden_size, k, seed)>>
    \o [j \in 1..Len(Range(1, mogrify_steps)) |->
          IF Range(1, mogrify_steps)[j] % 2 = 0
          THEN QTransform(input_size, hidden_size, k, seed + j)
          ELSE RTransform(input_size, hidden_size, k, seed + j)]

MogrifierLSTMCell(input_size, hidden_size, mogrify_steps, k, seed) ==
    [kind |-> "MogrifierLSTMCell", input_size |-> input_size, hidden_size |-> hidden_size,
     mogrify_steps |-> mogrify_steps, k |-> k,
     lstm |-> LSTMCellParams(input_size, hidden_size, seed, seed + 1),
     mogrifier_list |-> MogrifierList(input_size, hidden_size, mogrify_steps, k, seed)]

\* (2 * torch.sigmoid(g)) * v, elementwise
Gate(g0, v0) ==
    Let(<<g0, v0>>, LAMBDA a :
        LET g == a[1]
            v == a[2]
        IN IF IsRaised(g) \/ Len(g) # Len(v) THEN Raised
           ELSE Tuple([j \in 1..Len(v) |-> Mul(2 * sigmoid(g[j]), v[j])]))

\* a variant of MogrifyRounds: one round per stored transform
MogrifyRounds_PerTransform(cl) == Len(cl.mogrifier_list)

\* range(self.mogrify_steps): the number of rounds mogrify runs
MogrifyRounds(cl) == cl.mogrify_steps

\* a variant of UpdatesH: the parity test without the + 1
UpdatesH_Flipped(i) == i % 2 = 0

\* the branch test of round i: TRUE when the round updates h
UpdatesH(i) == (i + 1) % 2 = 0

\* the body of the loop of mogrify for index i: the new (x, h)
MogrifyStep(cl, i, x0, h0) ==
    Let(<<x0, h0>>, LAMBDA a :
        LET t == cl.mogrifier_list[i + 1]
            x == a[1]
            h == a[2]
        IN IF UpdatesH(i)
           THEN <<x, Gate(ApplyTransform(t, x), h)>>
           ELSE <<Gate(ApplyTransform(t, h), x), h>>)

RECURSIVE MogrifyFrom(_, _, _, _)
\* mogrify(x, h), from round i on; Raised when a round raised
MogrifyFrom(cl, i, x, h) ==
    IF i >= MogrifyRounds(cl) THEN <<x, h>>
    ELSE Let(MogrifyStep(cl, i, x, h), LAMBDA r :
            IF IsRaised(r[1]) \/ IsRaised(r[2]) THEN Raised
            ELSE MogrifyFrom(cl, i + 1, r[1], r[2]))

\* MogrifierLSTMCell.forward(x, (ht, ct))
MogrifierForward(cl, x, h, c) ==
    Let(MogrifyFrom(cl, 0, x, h), LAMBDA m :
        IF IsRaised(m) THEN Raised ELSE LSTMCell(cl.lstm, m[1], m[2], c))

\* the input vectors tried
Vectors(n) == {[j \in 1..n |-> ((j + s) % 3) * (Unit \div 2) + s] : s \in 0..MaxSeed}

MogIdle ==
    /\ cell = <<>>
    /\ mpc = "idle"
    /\ margs = <<>>
    /\ mx = <<>> /\ mh = <<>> /\ mc = <<>>
    /\ mi = 0
    /\ mlog = <<>>
    /\ mout = <<>>

\* MogrifierLSTMCell(input_size, hidden_size, mogrify_steps, k)
MogConstruct ==
    /\ mpc = "idle"
    /\ \E input_size \in 1..MaxSize, hidden_size \in 1..MaxSize,
          steps \in 0..MaxSteps, k \in {2, DefaultK}, seed \in 0..MaxSeed :
         cell' = MogrifierLSTMCell(input_size, hidden_size, steps, k, seed)
    /\ mpc' = "ready"
    /\ UNCHANGED <<margs, mx, mh, mc, mi, mlog, mout>>

\* forward(x, states): unpack the state and enter mogrify
MogForward ==
    /\ mpc \in {"ready", "done"}
    /\ \E x \in Vectors(cell.input_size), h \in Vectors(cell.hidden_size) :
         /\ margs' = <<x, h, RandVector(cell.hidden_size, 1)>>
         /\ mx' = x /\ mh' = h
         /\ mc' = RandVector(cell.hidden_size, 1)
    /\ mi' = 0
    /\ mlog' = <<>>
    /\ mout' = <<>>
    /\ mpc' = "mogrify"
    /\ UNCHANGED cell

\* one iteration of the loop of mogrify
MogrifyRound ==
    /\ mpc = "mogrify"
    /\ mi < MogrifyRounds(cell)
    /\ LET r == MogrifyStep(cell, mi, mx, mh)
           nx == r[1]
           nh == r[2]
       IN /\ mx' = nx /\ mh' = nh
          /\ mlog' = Append(mlog, [i |-> mi, x |-> nx, h |-> nh])
          /\ mpc' = IF IsRaised(nx) \/ IsRaised(nh) THEN "error" ELSE "mogrify"
    /\ mi' = mi + 1
    /\ UNCHANGED <<cell, margs, mc, mout>>

\* mogrify returns; forward runs the LSTM step and returns (ht, ct)
MogLSTM ==
    /\ mpc = "mogrify"
    /\ mi >= MogrifyRounds(cell)
    /\ mout' = LSTMCell(cell.lstm, mx, mh, mc)
    /\ mpc' = IF IsRaised(LSTMCell(cell.lstm, mx, mh, mc)) THEN "error" ELSE "done"
    /\ UNCHANGED <<cell, margs, mx, mh, mc, mi, mlog>>


-----------------------------------------------------------------------------
(* language_model.py: LanguageModel, MogrifierLanguageModel *)

\* drop_prob = 0.1: a kept activation is scaled by 1 / (1 - 0.1) = 10 / 9
KeepNum == 9
KeepDen == 10

\* the (voc_size, emb_size, hid_size) tried
Shapes == {<<2, 1, 1>>, <<3, 2, 2>>}

\* nn.Embedding(voc_size, emb_size): one row per token
Embedding(voc_size, emb_size, seed) ==
    [t \in 1..voc_size |->
        [e \in 1..emb_size |-> (((2 * t + e + seed) % 5) - 2) * (Unit \div 2)]]

\* LanguageModel.__init__ (init_weights zeroes the bias of logits); hh < 0
\* stands for a model whose cells' bias_hh have been set to zero
LanguageModel(voc_size, emb_size, hid_size, seed, hh) ==
    [kind |-> "LanguageModel", training |-> TRUE,
     emb_vectors |-> Embedding(voc_size, emb_size, seed),
     lstm1 |-> LSTMCellParams(emb_size, hid_size, seed, hh),
     logits |-> [Linear(hid_size, voc_size, TRUE, seed) EXCEPT !.bias = zeros(voc_size)],
     lstm2 |-> LSTMCellParams(hid_size, hid_size, seed + 1, IF hh < 0 THEN hh ELSE hh + 1)]

\* MogrifierLanguageModel.__init__: the base constructor, then both cells replaced
MogrifierLanguageModel(mogrify_steps, voc_size, emb_size, hid_size, seed) ==
    [LanguageModel(voc_size, emb_size, hid_size, seed, seed) EXCEPT
        !.kind = "MogrifierLanguageModel",
        !.lstm1 = MogrifierLSTMCell(emb_size, hid_size, mogrify_steps, DefaultK, seed),
        !.lstm2 = MogrifierLSTMCell(hid_size, hid_size, mogrify_steps, DefaultK, seed + 1)]

\* self.lstm1(x, (h, c)) / self.lstm2(x, (h, c)): <<h, c>>
CellForward(cl, x, h, c) ==
    IF cl.kind = "LSTMCell" THEN LSTMCell(cl, x, h, c) ELSE MogrifierForward(cl, x, h, c)

\* nn.Dropout on a vector: the identity in evaluation mode; in training mode
\* the elements at the indices in mask are zeroed and the others scaled
Dropout(v0, training, mask) ==
    Let(v0, LAMBDA v :
        IF ~training THEN v
        ELSE Tuple([j \in 1..Len(v) |->
                 IF j \in mask THEN 0 ELSE (v[j] * KeepDen) \div KeepNum]))

\* the dropout masks tried: nothing dropped, first element dropped
Masks == {{}, {1}}

MaxOf(v) == CHOOSE a \in {v[j] : j \in 1..Len(v)} : \A j \in 1..Len(v) : v[j] <= a

\* F.log_softmax(v, dim=-1) on one row, with max for the log-sum-exp
log_softmax(v0) ==
    Let(v0, LAMBDA v : Let(MaxOf(v), LAMBDA a : Tuple([j \in 1..Len(v) |-> v[j] - a])))

\* the token batches tried: batch_size rows of seq_length tokens below voc_size
TokenPatterns == {0, 1}
TokenBatches(voc_size) ==
    {[b \in 1..batch_size |-> [t \in 1..seq_length |-> (b * s + t + s) % voc_size]] :
        batch_size \in 1..MaxBatch, seq_length \in 1..MaxSeq, s \in TokenPatterns}

\* a variant of InitialStates: the previous call's tensors are kept when they fit
InitialStates_Carried(batch_size, hidden1, hidden2, old) ==
    IF old # <<>> /\ Len(old.h1) = batch_size THEN old
    ELSE [h1 |-> [b \in 1..batch_size |-> zeros(hidden1)],
          c1 |-> [b \in 1..batch_size |-> zeros(hidden1)],
          h2 |-> [b \in 1..batch_size |-> zeros(hidden2)],
          c2 |-> [b \in 1..batch_size |-> zeros(hidden2)]]

\* lines 26-29: h1, c1, h2, c2 at the start of a call; old holds what the
\* names were bound to when the previous call ended
InitialStates(batch_size, hidden1, hidden2, old) ==
    [h1 |-> [b \in 1..batch_size |-> zeros(hidden1)],
     c1 |-> [b \in 1..batch_size |-> zeros(hidden1)],
     h2 |-> [b \in 1..batch_size |-> zeros(hidden2)],
     c2 |-> [b \in 1..batch_size |-> zeros(hidden2)]]

\* lines 33-34 for every row of the batch: the new h1, c1, h2, c2
LoopBody(m, inputs, step, st0, mask) ==
    Let(st0, LAMBDA st :
        LET row(b) ==
              Let(CellForward(m.lstm1, m.emb_vectors[inputs[b][step + 1] + 1],
                              st.h1[b], st.c1[b]), LAMBDA r1 :
                  Let(CellForward(m.lstm2, Dropout(r1[1], m.training, mask),
                                  st.h2[b], st.c2[b]), LAMBDA r2 :
                      <<r1[1], r1[2], r2[1], r2[2]>>))
            B == Len(inputs)
        IN Let(Tuple([b \in 1..B |-> row(b)]), LAMBDA rows :
               [h1 |-> Tuple([b \in 1..B |-> rows[b][1]]),
                c1 |-> Tuple([b \in 1..B |-> rows[b][2]]),
                h2 |-> Tuple([b \in 1..B |-> rows[b][3]]),
                c2 |-> Tuple([b \in 1..B |-> rows[b][4]])]))

\* lines 37-39: concatenate along dim 1, dropout, logits, log_softmax.  A
\* tensor is its shape and its rows (vectors along the last dimension) in
\* row-major order.
Project(m, hs0, batch_size, mask) ==
    Let(hs0, LAMBDA hs :
        LET T == Len(hs)
        IN [shape |-> <<batch_size, T, Len(m.logits.weight)>>,
            rows |-> Tuple([n \in 1..(batch_size * T) |->
                        LET b == ((n - 1) \div T) + 1
                            t == ((n - 1) % T) + 1
                        IN log_softmax(ApplyLinear(m.logits,
                                          Dropout(hs[t][b], m.training, mask)))])])

RECURSIVE RunSteps(_, _, _)
\* the locals after n iterations of the loop of forward, in evaluation mode
RunSteps(m, inputs, n) ==
    IF n = 0
    THEN InitialStates(Len(inputs), m.lstm1.hidden_size, m.lstm2.hidden_size, <<>>)
    ELSE LoopBody([m EXCEPT !.training = FALSE], inputs, n - 1,
                  RunSteps(m, inputs, n - 1), {})

\* LanguageModel.forward(inputs) as a function, in evaluation mode
EvalForward(m, inputs) ==
    Project([m EXCEPT !.training = FALSE],
            Tuple([t \in 1..Len(inputs[1]) |-> RunSteps(m, inputs, t).h2]),
            Len(inputs), {})

-----------------------------------------------------------------------------
(* language_model.py: CudnnLanguageModel and convert_to_cudnn_lstm *)

\* an nn.Parameter
Parameter(data) == [data |-> data, requires_grad |-> TRUE]

\* the key name + '_l<layer>' of nn.LSTM._parameters: a name is the sequence
\* of its dotted components, followed by the suffix
Key(name, suffix) == name \o <<suffix>>

\* nn.LSTM(emb_size, hid_size, num_layers): its _parameters
LSTMParameters(emb_size, hid_size, nlayers, seed) ==
    LET layer(l) == LSTMCellParams(IF l = 0 THEN emb_size ELSE hid_size,
                                   hid_size, seed + l, seed + l + 1)
        suffix(l) == IF l = 0 THEN "_l0" ELSE IF l = 1 THEN "_l1" ELSE "_l2"
        keys == {<<n, l>> : n \in {"weight_ih", "weight_hh", "bias_ih", "bias_hh"},
                            l \in 0..(nlayers - 1)}
    IN [k \in {Key(<<nl[1]>>, suffix(nl[2])) : nl \in keys} |->
          LET l == IF k[2] = "_l0" THEN 0 ELSE IF k[2] = "_l1" THEN 1 ELSE 2
          IN Parameter(CASE k[1] = "weight_ih" -> layer(l).weight_ih
                         [] k[1] = "weight_hh" -> layer(l).weight_hh
                         [] k[1] = "bias_ih" -> layer(l).bias_ih
                         [] OTHER -> layer(l).bias_hh)]

\* CudnnLanguageModel.__init__
CudnnLanguageModel(voc_size, emb_size, hid_size, nlayers, seed) ==
    [kind |-> "CudnnLanguageModel", training |-> TRUE,
     emb_vectors |-> Embedding(voc_size, emb_size, seed),
     logits |-> Linear(hid_size, voc_size, TRUE, seed),
     lstm |-> [hidden_size |-> hid_size,
               parameters |-> LSTMParameters(emb_size, hid_size, nlayers, seed)],
     num_layers |-> nlayers]

\* named_parameters() of a gating transform stored under a name
TransformParameters(name, t) ==
    IF t.kind = "Linear"
    THEN << <<name \o <<"weight">>, t.weight>>, <<name \o <<"bias">>, t.bias>> >>
    ELSE << <<name \o <<"0", "weight">>, t.first.weight>>,
            <<name \o <<"1", "weight">>, t.second.weight>>,
            <<name \o <<"1", "bias">>, t.second.bias>> >>

\* named_parameters() of an nn.LSTMCell registered under a name prefix
LSTMCellParameters(prefix, cl) ==
    << <<prefix \o <<"weight_ih">>, cl.weight_ih>>,
       <<prefix \o <<"weight_hh">>, cl.weight_hh>>,
       <<prefix \o <<"bias_ih">>, cl.bias_ih>>,
       <<prefix \o <<"bias_hh">>, cl.bias_hh>> >>

\* cell.named_parameters(): pairs <<name, tensor>> in registration order
NamedParameters(cl) ==
    IF cl.kind = "LSTMCell" THEN LSTMCellParameters(<<>>, cl)
    ELSE LSTMCellParameters(<<"lstm">>, cl.lstm)
         \o Flatten([j \in 1..Len(cl.mogrifier_list) |->
               TransformParameters(<<"mogrifier_list", IndexName[j]>>,
                                   cl.mogrifier_list[j])])

RECURSIVE CopyParameters(_, _, _)
\* the loops of lines 81-82 and 86-87: _parameters[name + suffix] = deepcopy(weights)
CopyParameters(ps, named, suffix) ==
    IF named = <<>> THEN ps
    ELSE CopyParameters((Key(named[1][1], suffix) :> Parameter(named[1][2])) @@ ps,
                        Tail(named), suffix)

\* lines 83-84 and 88-89: requires_grad = False, then zero_() in place
FreezeAndZero(ps, key) ==
    [ps EXCEPT ![key] = [data |-> zeros(Len(ps[key].data)), requires_grad |-> FALSE]]

\* convert_to_cudnn_lstm(model): the new model, or the error it raises
convert_to_cudnn_lstm(m, seed) ==
    IF "lstm1" \notin DOMAIN m \/ "lstm2" \notin DOMAIN m
    THEN [status |-> "AttributeError"]
    ELSE
    LET voc_size == Len(m.logits.weight)
        hid_size == Len(m.logits.weight[1])
        emb_size == Len(m.emb_vectors[1])
        fresh == CudnnLanguageModel(voc_size, emb_size, hid_size, 2, seed)
        p0 == CopyParameters(fresh.lstm.parameters, NamedParameters(m.lstm1), "_l0")
        p1 == FreezeAndZero(p0, <<"bias_hh", "_l0">>)
        p2 == CopyParameters(p1, NamedParameters(m.lstm2), "_l1")
        p3 == FreezeAndZero(p2, <<"bias_hh", "_l1">>)
    IN [status |-> "ok",
        model |-> [fresh EXCEPT !.emb_vectors = m.emb_vectors,
                                !.logits = m.logits,
                                !.lstm.parameters = p3]]

RECURSIVE LSTMLayer(_, _, _, _, _, _)
\* one layer of nn.LSTM over a sequence xs of one batch row: the hidden
\* vector after every step, from (h, c)
LSTMLayer(ps, suffix, hid, xs, h, c) ==
    IF xs = <<>> THEN <<>>
    ELSE Let(LSTMStep(ps[<<"weight_ih", suffix>>].data, ps[<<"weight_hh", suffix>>].data,
                      ps[<<"bias_ih", suffix>>].data, ps[<<"bias_hh", suffix>>].data,
                      hid, Head(xs), h, c),
             LAMBDA r : <<r[1]>> \o LSTMLayer(ps, suffix, hid, Tail(xs), r[1], r[2]))

\* self.lstm(embs, hidden) with two layers and zero hidden: r_output of one row
FusedLSTM(cm, xs, mask) ==
    LET hid == cm.lstm.hidden_size
    IN Let(LSTMLayer(cm.lstm.parameters, "_l0", hid, xs, zeros(hid), zeros(hid)),
           LAMBDA out0 :
               Let(Tuple([t \in 1..Len(out0) |-> Dropout(out0[t], cm.training, mask)]),
                   LAMBDA in1 :
                       LSTMLayer(cm.lstm.parameters, "_l1", hid, in1,
                                 zeros(hid), zeros(hid))))

\* CudnnLanguageModel.forward, lines 57-69, when hidden is bound
CudnnForward(cm, inputs, mask1, mask2) ==
    LET B == Len(inputs)
        T == Len(inputs[1])
    IN Let(Tuple([b \in 1..B |->
                FusedLSTM(cm, Tuple([t \in 1..T |-> cm.emb_vectors[inputs[b][t] + 1]]),
                          mask1)]),
           LAMBDA r_output :
               [shape |-> <<B * T, Len(cm.logits.weight)>>,
                rows |-> Tuple([n \in 1..(B * T) |->
                            LET b == ((n - 1) \div T) + 1
                                t == ((n - 1) % T) + 1
                            IN log_softmax(ApplyLinear(cm.logits,
                                     Dropout(r_output[b][t], cm.training, mask2)))])])

-----------------------------------------------------------------------------
(* The language models as a state machine *)

LMIdle ==
    /\ model = <<>>
    /\ cudnn = <<>>
    /\ conv = <<>>
    /\ call = <<>>
    /\ lpc = "idle"
    /\ lstep = 0
    /\ lstate = <<>>
    /\ hid_seq = <<>>
    /\ lout = <<>>
    /\ ncalls = 0

Resting == lpc \in {"idle", "done", "raised"}

\* the (mogrify_steps) tried for a MogrifierLanguageModel
LMMogrifySteps == {0, 2}

\* LanguageModel(voc_size, emb_size, hid_size)
MakeLanguageModel ==
    /\ model = <<>>
    /\ \E shp \in Shapes, seed \in 0..MaxSeed :
         \E hh \in {-1, seed} :
            model' = LanguageModel(shp[1], shp[2], shp[3], seed, hh)
    /\ UNCHANGED <<cudnn, conv, call, lpc, lstep, lstate, hid_seq, lout, ncalls>>

\* MogrifierLanguageModel(mogrify_steps, voc_size, emb_size, hid_size)
MakeMogrifierLanguageModel ==
    /\ model = <<>>
    /\ \E shp \in Shapes, seed \in 0..MaxSeed, steps \in LMMogrifySteps :
         model' = MogrifierLanguageModel(steps, shp[1], shp[2], shp[3], seed)
    /\ UNCHANGED <<cudnn, conv, call, lpc, lstep, lstate, hid_seq, lout, ncalls>>

\* between two calls the caller has dropped the finished call's frame and result
Dropped ==
    /\ call' = <<>>
    /\ lpc' = "idle"
    /\ lstep' = 0
    /\ lstate' = <<>>
    /\ hid_seq' = <<>>
    /\ lout' = <<>>

\* convert_to_cudnn_lstm(src), src the two-cell model or a fused model
Convert ==
    /\ model # <<>> /\ Resting
    /\ \E src \in {model} \cup (IF cudnn = <<>> THEN {} ELSE {cudnn}) :
         LET r == convert_to_cudnn_lstm(src, 1)
         IN /\ conv' = [source |-> src.kind, status |-> r.status]
            /\ cudnn' = IF r.status = "ok" THEN r.model ELSE cudnn
    /\ Dropped
    /\ UNCHANGED <<model, ncalls>>

\* model.eval() / model.train() on the two-cell model
SetModelMode ==
    /\ model # <<>> /\ Resting
    /\ model' = [model EXCEPT !.training = ~model.training]
    /\ Dropped
    /\ UNCHANGED <<cudnn, conv, ncalls>>

\* cudnn_model.eval() / cudnn_model.train() on the fused model
SetCudnnMode ==
    /\ cudnn # <<>> /\ Resting
    /\ cudnn' = [cudnn EXCEPT !.training = ~cudnn.training]
    /\ Dropped
    /\ UNCHANGED <<model, conv, ncalls>>

InitialStateArgs == {"None", "given"}

\* the masks a call's dropout applications draw: one mask per call is tried
CallMasks(training) == IF training THEN Masks ELSE {{}}

\* LanguageModel.forward(inputs, initial_state), lines 22-31
LMStart ==
    /\ model # <<>> /\ Resting /\ ncalls < MaxCalls
    /\ \E inputs \in TokenBatches(Len(model.emb_vectors)), init \in InitialStateArgs,
          mask \in CallMasks(model.training) :
         /\ call' = [target |-> "model", inputs |-> inputs, initial_state |-> init,
                     training |-> model.training, mask |-> mask]
         /\ lstate' = InitialStates(Len(inputs), model.lstm1.hidden_size,
                                    model.lstm2.hidden_size, lstate)
    /\ hid_seq' = <<>>
    /\ lstep' = 0
    /\ lout' = <<>>
    /\ lpc' = "loop"
    /\ ncalls' = ncalls + 1
    /\ UNCHANGED <<model, cudnn, conv>>

\* one iteration of the loop, lines 32-35
LMStep ==
    /\ lpc = "loop" /\ lstep < Len(call.inputs[1])
    /\ LET st == LoopBody(model, call.inputs, lstep, lstate, call.mask)
       IN /\ lstate' = st
          /\ hid_seq' = Append(hid_seq, st.h2)
    /\ lstep' = lstep + 1
    /\ UNCHANGED <<model, cudnn, conv, call, lpc, lout, ncalls>>

\* after the loop, lines 37-39
LMReturn ==
    /\ lpc = "loop" /\ lstep >= Len(call.inputs[1])
    /\ lout' = Project(model, hid_seq, Len(call.inputs), call.mask)
    /\ lpc' = "done"
    /\ UNCHANGED <<model, cudnn, conv, call, lstep, lstate, hid_seq, ncalls>>

\* CudnnLanguageModel.forward(inputs, initial_state): hidden is bound only
\* when initial_state is None; otherwise line 65 raises UnboundLocalError
CudnnCall ==
    /\ cudnn # <<>> /\ Resting /\ ncalls < MaxCalls
    /\ \E inputs \in TokenBatches(Len(cudnn.emb_vectors)), init \in InitialStateArgs,
          mask \in CallMasks(cudnn.training) :
         /\ call' = [target |-> "cudnn", inputs |-> inputs, initial_state |-> init,
                     training |-> cudnn.training, mask |-> mask]
         /\ IF init = "None"
            THEN /\ lout' = CudnnForward(cudnn, inputs, mask, mask)
                 /\ lpc' = "done"
            ELSE /\ lout' = <<>>
                 /\ lpc' = "raised"
    /\ lstep' = 0
    /\ lstate' = <<>>
    /\ hid_seq' = <<>>
    /\ ncalls' = ncalls + 1
    /\ UNCHANGED <<model, cudnn, conv>>

-----------------------------------------------------------------------------
(* The specifications: each drives one part of the library, the rest stays idle *)

InitMog == FixupIdle /\ MogIdle /\ LMIdle

NextMog ==
    \/ MogConstruct /\ UNCHANGED <<fixupVars, lmVars>>
    \/ MogForward /\ UNCHANGED <<fixupVars, lmVars>>
    \/ MogrifyRound /\ UNCHANGED <<fixupVars, lmVars>>
    \/ MogLSTM /\ UNCHANGED <<fixupVars, lmVars>>

SpecMog == InitMog /\ [][NextMog]_vars

InitLM == FixupIdle /\ MogIdle /\ LMIdle

NextLM ==
    \/ MakeLanguageModel /\ UNCHANGED <<fixupVars, mogVars>>
    \/ MakeMogrifierLanguageModel /\ UNCHANGED <<fixupVars, mogVars>>
    \/ SetModelMode /\ UNCHANGED <<fixupVars, mogVars>>
    \/ LMStart /\ UNCHANGED <<fixupVars, mogVars>>
    \/ LMStep /\ UNCHANGED <<fixupVars, mogVars>>
    \/ LMReturn /\ UNCHANGED <<fixupVars, mogVars>>

SpecLM == InitLM /\ [][NextLM]_vars

NextFused ==
    \/ MakeLanguageModel /\ UNCHANGED <<fixupVars, mogVars>>
    \/ MakeMogrifierLanguageModel /\ UNCHANGED <<fixupVars, mogVars>>
    \/ Convert /\ UNCHANGED <<fixupVars, mogVars>>
    \/ SetModelMode /\ UNCHANGED <<fixupVars, mogVars>>
    \/ SetCudnnMode /\ UNCHANGED <<fixupVars, mogVars>>
    \/ LMStart /\ UNCHANGED <<fixupVars, mogVars>>
    \/ LMStep /\ UNCHANGED <<fixupVars, mogVars>>
    \/ LMReturn /\ UNCHANGED <<fixupVars, mogVars>>
    \/ CudnnCall /\ UNCHANGED <<fixupVars, mogVars>>

SpecFused == InitLM /\ [][NextFused]_vars

InitFixup == FixupIdle /\ MogIdle /\ LMIdle

NextFixup ==
    \/ ConstructShort /\ UNCHANGED <<mogVars, lmVars>>
    \/ Construct /\ UNCHANGED <<mogVars, lmVars>>
    \/ VisitFront /\ UNCHANGED <<mogVars, lmVars>>
    \/ VisitBack /\ UNCHANGED <<mogVars, lmVars>>
    \/ Forward /\ UNCHANGED <<mogVars, lmVars>>

SpecFixup == InitFixup /\ [][NextFixup]_vars

-----------------------------------------------------------------------------
(* Properties of MogrifierLSTMCell, checked under SpecMog *)

Constructed == mpc # "idle"
LowRank(t) == t.kind = "Sequential"
\* t maps vectors of size a to vectors of size b
Maps(t, a, b) == t.in_features = a /\ t.out_features = b

\* C3: a cell constructed with mogrify_steps = 0 runs no gating round: its
\* forward returns what the inner LSTM step returns on the unmodified
\* arguments (x, (h, c)), although mogrifier_list still holds one transform.
C3_ZeroStepsIsPlainLSTM ==
    (mpc = "done" /\ cell.mogrify_steps = 0) =>
        /\ mlog = <<>>
        /\ mout = LSTMCell(cell.lstm, margs[1], margs[2], margs[3])
        /\ Len(cell.mogrifier_list) = 1

C3_Witness ==
    /\ mpc = "done"
    /\ cell.mogrify_steps = 0
    /\ ~IsRaised(mout)
    /\ Len(cell.mogrifier_list) = 1

\* C6 as stated: every gating transform is low-rank exactly when both
\* input_size and hidden_size are below k, and full-rank otherwise.
C6_LowRankWhenBothBelowK ==
    Constructed =>
        \A j \in 1..Len(cell.mogrifier_list) :
            LowRank(cell.mogrifier_list[j])
                <=> (cell.input_size < cell.k /\ cell.hidden_size < cell.k)

\* C6 amended: every gating transform is the two-stage map of inner dimension
\* k exactly when both input_size and hidden_size are at least k, and a single
\* full-rank linear map when either is below k; one choice for the whole cell.
C6_LowRankWhenBothAtLeastK ==
    Constructed =>
        \A j \in 1..Len(cell.mogrifier_list) :
            LET t == cell.mogrifier_list[j] IN
            IF cell.input_size >= cell.k /\ cell.hidden_size >= cell.k
            THEN /\ t.kind = "Sequential"
                 /\ t.first.kind = "Linear" /\ t.second.kind = "Linear"
                 /\ t.first.out_features = cell.k
                 /\ t.second.in_features = cell.k
                 /\ t.first.bias = <<>>
            ELSE t.kind = "Linear"

C6_Witness ==
    /\ Constructed
    /\ Len(cell.mogrifier_list) >= 3
    /\ cell.input_size >= cell.k /\ cell.hidden_size >= cell.k
    /\ cell.input_size # cell.hidden_size
    /\ \A j \in 1..Len(cell.mogrifier_list) : LowRank(cell.mogrifier_list[j])

\* C8: the rounds of mogrify run in index order 0, 1, ..., exactly
\* mogrify_steps of them; a round with even i replaces only x, by
\* 2*sigmoid(transform_i(h))*x, a round with odd i replaces only h, by
\* 2*sigmoid(transform_i(x))*h; the transform at index i maps hidden_size to
\* input_size for even i and input_size to hidden_size for odd i; and the
\* LSTM step gets the call's c unchanged.
C8_RoundsAlternate ==
    /\ mpc # "error"
    /\ Constructed =>
         \A i \in 0..(cell.mogrify_steps - 1) :
            IF i % 2 = 0
            THEN Maps(cell.mogrifier_list[i + 1], cell.hidden_size, cell.input_size)
            ELSE Maps(cell.mogrifier_list[i + 1], cell.input_size, cell.hidden_size)
    /\ Len(mlog) = mi
    /\ \A j \in 1..Len(mlog) :
         LET px == IF j = 1 THEN margs[1] ELSE mlog[j - 1].x
             ph == IF j = 1 THEN margs[2] ELSE mlog[j - 1].h
             t == cell.mogrifier_list[j]
         IN /\ mlog[j].i = j - 1
            /\ j <= cell.mogrify_steps
            /\ IF (j - 1) % 2 = 0
               THEN /\ mlog[j].x = Gate(ApplyTransform(t, ph), px)
                    /\ mlog[j].h = ph
               ELSE /\ mlog[j].h = Gate(ApplyTransform(t, px), ph)
                    /\ mlog[j].x = px
            /\ ~IsRaised(mlog[j].x) /\ ~IsRaised(mlog[j].h)
    /\ mpc = "done" =>
         /\ Len(mlog) = cell.mogrify_steps
         /\ mout = LSTMCell(cell.lstm, mx, mh, margs[3])
         /\ cell.mogrify_steps > 0 =>
               (mx = mlog[Len(mlog)].x /\ mh = mlog[Len(mlog)].h)

C8_Witness ==
    /\ mpc = "done"
    /\ Len(mlog) = 3
    /\ cell.input_size # cell.hidden_size
    /\ mlog[1].x # margs[1]
    /\ mlog[2].h # mlog[1].h
    /\ mlog[3].x # mlog[2].x
    /\ mlog[3].h = mlog[2].h

-----------------------------------------------------------------------------
(* Properties of FixupResNet, checked under SpecFixup *)

WeightOf(name) == modules[IndexOf(modules, name)].weight
StageBlocks(i) ==
    Cardinality({j \in BlockModules : modules[j].name[1] = StageName[i]})

\* C2: when construction has succeeded, every FixupBasicBlock has conv2
\* weight exactly zero, bias1a, bias1b, bias2a and bias2b exactly zero and
\* scale exactly one, and the network's bias1 and bias2 are exactly zero;
\* in named_modules() order of the initialization pass and in the reverse.
C2_FixupInitValues ==
    fpc = "done" =>
        /\ \A j \in BlockModules :
             LET p == modules[j].name IN
             /\ WeightOf(p \o <<"conv2">>) = Constant(0)
             /\ WeightOf(p \o <<"bias1a">>) = Constant(0)
             /\ WeightOf(p \o <<"bias1b">>) = Constant(0)
             /\ WeightOf(p \o <<"bias2a">>) = Constant(0)
             /\ WeightOf(p \o <<"bias2b">>) = Constant(0)
             /\ WeightOf(p \o <<"scale">>) = Constant(1)
        /\ WeightOf(<<"bias1">>) = Constant(0)
        /\ WeightOf(<<"bias2">>) = Constant(0)

\* a network built from more blocks than stages, initialized in reverse order
\* (every block's children were visited before the block itself)
C2_Witness ==
    /\ fpc = "done"
    /\ hi = 0
    /\ Cardinality(BlockModules) > 4
    /\ \E j \in BlockModules : IndexOf(modules, modules[j].name \o <<"downsample">>) # 0

\* C5: construction produces a network only from a layer-count list of
\* exactly four entries; shorter and longer lists are rejected.
C5_RejectsWrongLength ==
    fpc = "done" => Len(layers) = 4

\* C7: after construction from a four-entry list, stage i holds exactly
\* layers[i] blocks, and the network holds exactly num_layers blocks, the
\* depth L that the conv1 initialization uses.
C7_BlockCountIsL ==
    (fpc = "done" /\ Len(layers) = 4) =>
        /\ \A i \in 1..4 : StageBlocks(i) = layers[i]
        /\ Cardinality(BlockModules) = num_layers
        /\ \A j \in BlockModules :
             WeightOf(modules[j].name \o <<"conv1">>)
                = Normal(modules[j].shape[2] * 9 * Cardinality(BlockModules))

-----------------------------------------------------------------------------
(* Properties of the language models, checked under SpecLM and SpecFused *)

ZeroState(batch_size, hidden1, hidden2) ==
    [h1 |-> [b \in 1..batch_size |-> zeros(hidden1)],
     c1 |-> [b \in 1..batch_size |-> zeros(hidden1)],
     h2 |-> [b \in 1..batch_size |-> zeros(hidden2)],
     c2 |-> [b \in 1..batch_size |-> zeros(hidden2)]]

InModelCall == call # <<>> /\ call.target = "model"
InCudnnCall == call # <<>> /\ call.target = "cudnn"

\* C9: every call of LanguageModel.forward starts both layers from zero
\* (hidden, cell) tensors of shape (batch, hidden_size), runs the steps
\* 0..seq_length-1 in order, layer 1 then layer 2, recording one layer-2
\* hidden state per step, and with dropout disabled returns what a first
\* call on the same tokens returns, whatever calls came before it.
C9_FreshStatePerCall ==
    InModelCall =>
        LET B == Len(call.inputs)
            T == Len(call.inputs[1])
        IN /\ lpc # "raised"
           /\ lpc = "loop" =>
                /\ lstep <= T
                /\ Len(hid_seq) = lstep
                /\ lstep = 0 =>
                     lstate = ZeroState(B, model.lstm1.hidden_size, model.lstm2.hidden_size)
                /\ ~call.training =>
                     /\ lstate = RunSteps(model, call.inputs, lstep)
                     /\ \A j \in 1..lstep :
                          hid_seq[j] = RunSteps(model, call.inputs, j).h2
           /\ lpc = "done" =>
                /\ Len(hid_seq) = T
                /\ lout.shape = <<B, T, Len(model.logits.weight)>>
                /\ ~call.training => lout = EvalForward(model, call.inputs)

\* a second call, of two steps, in evaluation mode, whose recurrent state
\* has left zero and whose output rows are not all alike
C9_Witness ==
    /\ InModelCall
    /\ lpc = "done"
    /\ ncalls >= 2
    /\ ~call.training
    /\ Len(call.inputs[1]) >= 2
    /\ lstate # ZeroState(Len(call.inputs), model.lstm1.hidden_size,
                          model.lstm2.hidden_size)
    /\ hid_seq[1] # hid_seq[2]
    /\ lout = EvalForward(model, call.inputs)

\* C1: with dropout disabled, the model returned by convert_to_cudnn_lstm(m)
\* for a two-cell LanguageModel m returns, on every token batch, a tensor of
\* shape (batch, seq_length, vocab_size) with the values m returns.
C1_FusedEqualsTwoCell ==
    (/\ InCudnnCall
     /\ lpc = "done"
     /\ ~call.training
     /\ conv # <<>> /\ conv.status = "ok" /\ conv.source = "LanguageModel")
    => /\ lout.shape = EvalForward(model, call.inputs).shape
       /\ lout.rows = EvalForward(model, call.inputs).rows

\* C4: convert_to_cudnn_lstm returns a model only for a source made of two
\* plain LSTM cells; for any other source it raises.
C4_ConvertRejectsOtherForms ==
    (conv # <<>> /\ conv.status = "ok") => conv.source = "LanguageModel"

\* C10: a forward call given a non-None initial_state does not fail, on
\* either model, and returns what the call returns with initial_state None.
C10_InitialStateAccepted ==
    (call # <<>> /\ call.initial_state # "None") =>
        /\ lpc # "raised"
        /\ (lpc = "done" /\ ~call.training) =>
              lout = IF call.target = "model"
                     THEN EvalForward(model, call.inputs)
                     ELSE CudnnForward(cudnn, call.inputs, {}, {})

=============================================================================
